---------------------------- MODULE Spec2Model ----------------------------
(***************************************************************************)
(* Model of btgym/algorithms/util.py: the nested-structure utilities       *)
(* nested_placeholders, flat_placeholders, feed_dict_from_nested,          *)
(* _flat_from_nested, feed_dict_rnn_context and batch_concat.              *)
(*                                                                         *)
(* The functions are pure, so every specification draws the arguments of   *)
(* one call in its initial state and has one action per function that      *)
(* applies it and stores what the call returns or raises.                  *)
(*                                                                         *)
(* A Python value is a node record [kind, keys, sub, val]:                 *)
(*   "dict"            keys = the keys in insertion order, sub[i] = the    *)
(*                     value stored under keys[i]                          *)
(*   "LSTMStateTuple"  sub = <<c, h>>                                      *)
(*   "tuple", "list"   sub = the items                                     *)
(*   "shape"           a shape tuple of a schema, val = its dimensions     *)
(*   "placeholder"     a tf.placeholder, val = <<name, shape>>             *)
(*   "ndarray"         a one-dimensional numpy array, val = its elements   *)
(*   "scalar"          a zero-dimensional numpy value, val = <<element>>   *)
(*   "int"             a Python int, val = <<n>>                           *)
(* A call returns Ok(v) or raises: Raise("KeyError"), ...                  *)
(***************************************************************************)
EXTENDS Integers, Sequences, FiniteSets, TLC

VARIABLES pc, ob_space, batch_dim, name, placeholder, value, expand_batch,
          dict_list, result

vars == <<pc, ob_space, batch_dim, name, placeholder, value, expand_batch,
          dict_list, result>>

-----------------------------------------------------------------------------
(* Bounds of the model. *)

\* Most nodes (containers and leaves) of a schema given to nested_placeholders.
MaxNodesSchema == 4
\* Most nodes of a slot tree or value tree given to feed_dict_from_nested.
MaxNodesBind == 4
\* Most nodes of a schema or value tree given to feed_dict_rnn_context.
MaxNodesZip == 4
\* Most nodes of one rollout given to batch_concat.
MaxNodesRollout == 5
\* Most nodes of one rollout when the rollouts need not be isomorphic.
MaxNodesMixed == 4
\* Most rollouts in one batch_concat call.
MaxBatch == 2
\* Longest leaf array (time steps) of a rollout.
MaxSteps == 2
\* Largest fixed batch dimension given to nested_placeholders.
MaxBatchDim == 2

\* batch_dim=None, the unbound batch dimension.
None == -1

-----------------------------------------------------------------------------
(* Python values. *)

Node(kind, keys, sub, val) == [kind |-> kind, keys |-> keys, sub |-> sub, val |-> val]

Dict(keys, sub) == Node("dict", keys, sub, <<>>)
LSTMStateTuple(c, h) == Node("LSTMStateTuple", <<>>, <<c, h>>, <<>>)
Tuple(sub) == Node("tuple", <<>>, sub, <<>>)
List(sub) == Node("list", <<>>, sub, <<>>)
Shape(dims) == Node("shape", <<>>, <<>>, dims)
Placeholder(shape, nm) == Node("placeholder", <<>>, <<>>, <<nm, shape>>)
NdArray(elems) == Node("ndarray", <<>>, <<>>, elems)
Scalar(e) == Node("scalar", <<>>, <<>>, <<e>>)
PyInt(n) == Node("int", <<>>, <<>>, <<n>>)
NoValue == Node("NoneType", <<>>, <<>>, <<>>)

Ok(v) == [status |-> "ok", out |-> v]
Raise(e) == [status |-> "error", out |-> e]
NotCalled == [status |-> "none", out |-> "none"]

Range(s) == {s[i] : i \in DOMAIN s}

\* isinstance(x, dict)
IsDict(x) == x.kind = "dict"
\* isinstance(x, tuple): an LSTMStateTuple is a namedtuple, so a tuple too.
IsTuple(x) == x.kind \in {"tuple", "LSTMStateTuple"}

\* d[key] of a dict that has the key.
DictGet(d, key) == d.sub[CHOOSE i \in DOMAIN d.keys : d.keys[i] = key]

\* d[key] = v: replaces the value of a key the dict has, appends a new key.
DictSet(d, key, v) ==
    IF key \in Range(d.keys)
    THEN Dict(d.keys, [i \in DOMAIN d.keys |-> IF d.keys[i] = key THEN v ELSE d.sub[i]])
    ELSE Dict(Append(d.keys, key), Append(d.sub, v))

\* Python's order of the strings the model uses as keys (sorted()).
PyStrOrder == <<"a", "a_b", "b", "state", "terminal", "x", "y">>

\* sorted(keys) of a sequence of distinct keys.
Sorted(keys) == SelectSeq(PyStrOrder, LAMBDA k : k \in Range(keys))

RECURSIVE Cat(_)
\* The concatenation of a sequence of sequences.
Cat(ss) == IF ss = <<>> THEN <<>> ELSE Head(ss) \o Cat(Tail(ss))

-----------------------------------------------------------------------------
(* tensorflow.python.util.nest, as util.py imports it. *)

\* nest.is_sequence: dicts, tuples, namedtuples and lists are structures.
IsSequence(x) == x.kind \in {"dict", "LSTMStateTuple", "tuple", "list"}

\* nest._yield_value: the items of a structure, a dict's in sorted key order.
YieldValue(x) ==
    IF IsDict(x)
    THEN LET ks == Sorted(x.keys) IN [i \in DOMAIN ks |-> DictGet(x, ks[i])]
    ELSE x.sub

RECURSIVE flatten_nested(_)
\* nest.flatten: the leaves depth first; what is no structure is one leaf.
flatten_nested(x) ==
    IF ~IsSequence(x) THEN <<x>>
    ELSE LET items == YieldValue(x)
         IN  Cat([i \in DOMAIN items |-> flatten_nested(items[i])])

RECURSIVE RecursiveAssertSameStructure(_, _)
\* nest._recursive_assert_same_structure with check_types=True: "" when the two
\* are nested in the same way, else the exception it raises.  The library is not
\* part of util.py; this is its documented behaviour: a ValueError when the two
\* differ in the keys of a dict or in the number of items at some position, a
\* TypeError when they differ in the type of a structure.
RecursiveAssertSameStructure(nest1, nest2) ==
    IF IsSequence(nest1) # IsSequence(nest2) THEN "ValueError"
    ELSE IF ~IsSequence(nest1) THEN ""
    ELSE IF nest1.kind # nest2.kind THEN "TypeError"
    ELSE IF IsDict(nest1) /\ Range(nest1.keys) # Range(nest2.keys) THEN "ValueError"
    ELSE IF Len(nest1.sub) # Len(nest2.sub) THEN "ValueError"
    ELSE LET s1 == YieldValue(nest1)
             s2 == YieldValue(nest2)
             bad == {i \in DOMAIN s1 : RecursiveAssertSameStructure(s1[i], s2[i]) # ""}
         IN  IF bad = {} THEN ""
             ELSE LET first == CHOOSE i \in bad : \A j \in bad : i <= j
                  IN  RecursiveAssertSameStructure(s1[first], s2[first])

\* nest.assert_same_structure(nest1, nest2, check_types=True).
assert_same_structure(nest1, nest2) ==
    IF Len(flatten_nested(nest1)) # Len(flatten_nested(nest2)) THEN "ValueError"
    ELSE RecursiveAssertSameStructure(nest1, nest2)

-----------------------------------------------------------------------------
(* nested_placeholders and flat_placeholders. *)

\* tf.placeholder(tf.float32, shape, name): the placeholder with the name the
\* caller asks for.
tf_placeholder(shape, nm) == Placeholder(shape, nm)

RECURSIVE nested_placeholders(_, _, _)
nested_placeholders(space, bdim, nm) ==
    IF IsDict(space)
    THEN Dict(space.keys,
              [i \in DOMAIN space.keys |->
                  nested_placeholders(space.sub[i], bdim, nm \o "_" \o space.keys[i])])
    ELSE tf_placeholder(<<bdim>> \o space.val, nm \o "_pl")

flat_placeholders(space, bdim, nm) ==
    flatten_nested(nested_placeholders(space, bdim, nm))

-----------------------------------------------------------------------------
(* The trees the calls are given. *)

\* The sequences of k different keys: the insertion orders of a dict.
KeySeqs(keys, k) ==
    {s \in [1..k -> keys] : \A i, j \in 1..k : s[i] = s[j] => i = j}

Min(a, b) == IF a < b THEN a ELSE b

RECURSIVE TreesOfSize(_, _, _, _)
RECURSIVE Forests(_, _, _, _, _)

\* The sequences of k trees that have m nodes together.
Forests(keys, kinds, leaves, m, k) ==
    IF k = 0 THEN (IF m = 0 THEN {<<>>} ELSE {})
    ELSE UNION {{<<t>> \o rest : t \in TreesOfSize(keys, kinds, leaves, j),
                                 rest \in Forests(keys, kinds, leaves, m - j, k - 1)} :
                j \in 1..(m - k + 1)}

\* The trees of exactly n nodes: containers of the given kinds over the leaves.
TreesOfSize(keys, kinds, leaves, n) ==
    IF n = 1 THEN leaves
    ELSE (IF "dict" \in kinds
          THEN UNION {{Dict(ks, f) : ks \in KeySeqs(keys, k),
                                     f \in Forests(keys, kinds, leaves, n - 1, k)} :
                      k \in 1..Min(n - 1, Cardinality(keys))}
          ELSE {})
         \cup
         (IF "tuple" \in kinds
          THEN UNION {{Tuple(f) : f \in Forests(keys, kinds, leaves, n - 1, k)} :
                      k \in 1..(n - 1)}
          ELSE {})
         \cup
         (IF "LSTMStateTuple" \in kinds
          THEN {LSTMStateTuple(f[1], f[2]) : f \in Forests(keys, kinds, leaves, n - 1, 2)}
          ELSE {})

\* The trees of at most n nodes.
Trees(keys, kinds, leaves, n) ==
    UNION {TreesOfSize(keys, kinds, leaves, j) : j \in 1..n}

AllKinds == {"dict", "tuple", "LSTMStateTuple"}

\* A leaf that stands for any leaf, in a tree that gives only the structure.
AnyLeaf == Node("leaf", <<>>, <<>>, <<>>)

RECURSIVE Fill(_, _, _)
\* The value tree of structure t whose leaves are arrays of `steps` elements, all
\* elements of the tree different and derived from `code`.
Fill(t, code, steps) ==
    IF IsSequence(t)
    THEN Node(t.kind, t.keys, [i \in DOMAIN t.sub |-> Fill(t.sub[i], code * 10 + i, steps)], <<>>)
    ELSE NdArray([s \in 1..steps |-> code * 10 + s])

RECURSIVE SlotTree(_, _)
\* The slot tree of structure t: a different placeholder at every leaf.
SlotTree(t, nm) ==
    IF IsSequence(t)
    THEN Node(t.kind, t.keys,
              [i \in DOMAIN t.sub |->
                  SlotTree(t.sub[i], nm \o "_" \o (IF IsDict(t) THEN t.keys[i] ELSE ToString(i - 1)))],
              <<>>)
    ELSE tf_placeholder(<<None>>, nm \o "_pl")

\* The step from a container to its i-th item: the key, or the position.
Step(t, i) == IF IsDict(t) THEN t.keys[i] ELSE ToString(i - 1)

RECURSIVE LeafPaths(_)
\* The paths from the root to the leaves.
LeafPaths(t) ==
    IF ~IsSequence(t) THEN {<<>>}
    ELSE UNION {{<<Step(t, i)>> \o p : p \in LeafPaths(t.sub[i])} : i \in DOMAIN t.sub}

RECURSIVE DictPaths(_)
\* The paths through dicts only, to the first node that is no dict.
DictPaths(t) ==
    IF ~IsDict(t) THEN {<<>>}
    ELSE UNION {{<<t.keys[i]>> \o p : p \in DictPaths(t.sub[i])} : i \in DOMAIN t.sub}

RECURSIVE At(_, _)
\* The node a path leads to.
At(t, p) ==
    IF p = <<>> THEN t
    ELSE At(t.sub[CHOOSE i \in DOMAIN t.sub : Step(t, i) = Head(p)], Tail(p))

RECURSIVE JoinKeys(_)
\* '_' + key for every key of a path.
JoinKeys(p) == IF p = <<>> THEN "" ELSE "_" \o Head(p) \o JoinKeys(Tail(p))

-----------------------------------------------------------------------------
(* SpecSlots: one call of nested_placeholders or flat_placeholders. *)

KeysSchema == {"a", "b", "a_b"}

Schemas == Trees(KeysSchema, {"dict"}, {Shape(<<>>), Shape(<<3>>)}, MaxNodesSchema)

InitSlots ==
    /\ pc = "call"
    /\ ob_space \in Schemas
    /\ batch_dim \in {None} \cup (1..MaxBatchDim)
    /\ name = "nested"
    /\ placeholder = NoValue
    /\ value = NoValue
    /\ expand_batch = FALSE
    /\ dict_list = <<>>
    /\ result = NotCalled

NestedPlaceholders ==
    /\ pc = "call"
    /\ result' = Ok(nested_placeholders(ob_space, batch_dim, name))
    /\ pc' = "nested_placeholders"
    /\ UNCHANGED <<ob_space, batch_dim, name, placeholder, value, expand_batch, dict_list>>

FlatPlaceholders ==
    /\ pc = "call"
    /\ placeholder' = List(flat_placeholders(ob_space, batch_dim, name))
    /\ pc' = "flat_placeholders"
    /\ UNCHANGED <<ob_space, batch_dim, name, value, expand_batch, dict_list, result>>

NextSlots == NestedPlaceholders \/ FlatPlaceholders

SpecSlots == InitSlots /\ [][NextSlots]_vars

\* The leaf of the slot tree at path p is the placeholder the schema leaf asks for.
SlotMatchesSchema(p) ==
    LET leaf == At(result.out, p)
    IN  /\ leaf.kind = "placeholder"
        /\ leaf.val[2] = <<batch_dim>> \o At(ob_space, p).val
        /\ leaf.val[1] = name \o JoinKeys(p) \o "_pl"

\* C8: the slot tree nested_placeholders returns has the key structure of the
\* schema, each leaf has shape [batch_dim] + s and the identifier name, '_' + key
\* for each key of its path, '_pl', and two different leaves have different
\* identifiers.
C8_UniqueIdentifiers ==
    pc = "nested_placeholders" =>
        /\ result.status = "ok"
        /\ LeafPaths(result.out) = LeafPaths(ob_space)
        /\ \A p \in LeafPaths(ob_space) : SlotMatchesSchema(p)
        /\ \A p, q \in LeafPaths(result.out) :
               p # q => At(result.out, p).val[1] # At(result.out, q).val[1]

\* The part of C8 the code keeps: structure, shapes and identifiers as built.
C8_StructureShapeName ==
    pc = "nested_placeholders" =>
        /\ result.status = "ok"
        /\ LeafPaths(result.out) = LeafPaths(ob_space)
        /\ \A p \in LeafPaths(ob_space) : SlotMatchesSchema(p)

-----------------------------------------------------------------------------
(* feed_dict_from_nested and _flat_from_nested. *)

\* x[key] for a string key.
GetKey(x, key) ==
    IF IsDict(x) THEN (IF key \in Range(x.keys) THEN Ok(DictGet(x, key)) ELSE Raise("KeyError"))
    ELSE IF x.kind = "ndarray" THEN Raise("IndexError")
    ELSE Raise("TypeError")

\* x[i] for an int i, counted from 0.
GetIndex(x, i) ==
    IF IsDict(x) THEN Raise("KeyError")
    ELSE IF IsTuple(x) \/ x.kind = "list"
         THEN (IF i < Len(x.sub) THEN Ok(x.sub[i + 1]) ELSE Raise("IndexError"))
    ELSE IF x.kind = "ndarray"
         THEN (IF i < Len(x.val) THEN Ok(Scalar(x.val[i + 1])) ELSE Raise("IndexError"))
    ELSE Raise("TypeError")

RECURSIVE Hashable(_)
\* hash(x) works: no list, no dict, no ndarray, and no tuple that holds one.
Hashable(x) ==
    IF x.kind \in {"list", "dict", "ndarray"} THEN FALSE
    ELSE \A i \in DOMAIN x.sub : Hashable(x.sub[i])

\* The first of a sequence of outcomes that is an exception, if there is one.
FirstError(rs) ==
    LET bad == {i \in DOMAIN rs : rs[i].status = "error"}
    IN  IF bad = {} THEN Ok(<<>>) ELSE rs[CHOOSE i \in bad : \A j \in bad : i <= j]

RECURSIVE UpdateAll(_)
\* feed_dict = {} then feed_dict.update(d) for each d in turn.
UpdateAll(ds) ==
    IF ds = <<>> THEN <<>>
    ELSE ds[Len(ds)] @@ UpdateAll(SubSeq(ds, 1, Len(ds) - 1))

\* A mutant of LeafFeed: the value is bound as it is, whatever expand_batch says.
LeafFeedNoExpand(slot, val, expand) ==
    IF ~Hashable(slot) THEN Raise("TypeError") ELSE Ok(slot :> val)

\* The else branch of _flat_from_nested: one slot, bound to [value] or value.
LeafFeed(slot, val, expand) ==
    IF ~Hashable(slot) THEN Raise("TypeError")
    ELSE IF expand THEN Ok(slot :> List(<<val>>))
    ELSE Ok(slot :> val)

\* A mutant of KeyValue: the value at the key's position instead of under the key.
KeyValueByPosition(slots, val, i) == GetIndex(Tuple(val.sub), i - 1)

\* value[key] for the i-th key of placeholder.keys()
KeyValue(slots, val, i) == GetKey(val, slots.keys[i])

RECURSIVE _flat_from_nested(_, _, _)
_flat_from_nested(slots, val, expand) ==
    IF IsDict(slots)
    THEN LET got == [i \in DOMAIN slots.keys |-> KeyValue(slots, val, i)]
             fed == [i \in DOMAIN slots.keys |->
                        IF got[i].status = "error" THEN got[i]
                        ELSE _flat_from_nested(slots.sub[i], got[i].out, expand)]
         IN  IF FirstError(fed).status = "error" THEN FirstError(fed)
             ELSE Ok(UpdateAll([i \in DOMAIN fed |-> fed[i].out]))
    ELSE LeafFeed(slots, val, expand)

\* A mutant of feed_dict_from_nested: the structures are not compared first.
feed_dict_from_nested_unchecked(slots, val, expand) ==
    _flat_from_nested(slots, val, expand)

feed_dict_from_nested(slots, val, expand) ==
    LET raised == assert_same_structure(slots, val)
    IN  IF raised # "" THEN Raise(raised)
        ELSE _flat_from_nested(slots, val, expand)

-----------------------------------------------------------------------------
(* SpecBind: one call of feed_dict_from_nested. *)

KeysBind == {"x", "y"}

BindStructures == Trees(KeysBind, AllKinds, {AnyLeaf}, MaxNodesBind)

BindSlots == {SlotTree(t, "pl") : t \in BindStructures}

BindValues == {Fill(t, 1, 1) : t \in BindStructures}

InitBind ==
    /\ pc = "call"
    /\ placeholder \in BindSlots
    /\ value \in BindValues
    /\ expand_batch \in BOOLEAN
    /\ ob_space = NoValue
    /\ batch_dim = None
    /\ name = "pl"
    /\ dict_list = <<>>
    /\ result = NotCalled

FeedDictFromNested ==
    /\ pc = "call"
    /\ result' = feed_dict_from_nested(placeholder, value, expand_batch)
    /\ pc' = "feed_dict_from_nested"
    /\ UNCHANGED <<ob_space, batch_dim, name, placeholder, value, expand_batch, dict_list>>

NextBind == FeedDictFromNested

SpecBind == InitBind /\ [][NextBind]_vars

RECURSIVE Isomorphic(_, _)
\* Two trees are structurally isomorphic: the same kind of node at every position,
\* the same keys in every mapping, the same arity in every pair and sequence.
Isomorphic(t, u) ==
    IF ~IsSequence(t) \/ ~IsSequence(u) THEN ~IsSequence(t) /\ ~IsSequence(u)
    ELSE /\ t.kind = u.kind
         /\ Len(t.sub) = Len(u.sub)
         /\ IF IsDict(t)
            THEN /\ Range(t.keys) = Range(u.keys)
                 /\ \A i \in DOMAIN t.keys : Isomorphic(t.sub[i], DictGet(u, t.keys[i]))
            ELSE \A i \in DOMAIN t.sub : Isomorphic(t.sub[i], u.sub[i])

\* The exceptions assert_same_structure raises.
StructureMismatch == {"ValueError", "TypeError"}

\* What a slot is bound to when the value at its position is v.
Bound(v) == IF expand_batch THEN List(<<v>>) ELSE v

\* C1: feed_dict_from_nested with a slot tree and a value tree that are not
\* structurally isomorphic raises a structure mismatch and returns no mapping.
C1_MismatchRaises ==
    (pc = "feed_dict_from_nested" /\ ~Isomorphic(placeholder, value)) =>
        (result.status = "error" /\ result.out \in StructureMismatch)

\* C1 witness: a value tree that lacks a key of the slot tree was refused.
C1_Witness ==
    /\ pc = "feed_dict_from_nested"
    /\ IsDict(placeholder) /\ IsDict(value)
    /\ Range(value.keys) # Range(placeholder.keys)
    /\ Range(value.keys) \subseteq Range(placeholder.keys)
    /\ result.status = "error"

\* C2 as stated: for isomorphic trees the keys of the flat mapping are exactly the
\* slot leaves, pair-nodes and plain sequences included, each bound to the value
\* leaf at the same position.
C2_KeysAreLeaves ==
    (pc = "feed_dict_from_nested" /\ Isomorphic(placeholder, value)) =>
        /\ result.status = "ok"
        /\ DOMAIN result.out = {At(placeholder, p) : p \in LeafPaths(placeholder)}
        /\ \A p \in LeafPaths(placeholder) :
               result.out[At(placeholder, p)] = Bound(At(value, p))

\* C2 amended: for isomorphic trees the keys of the flat mapping are exactly the
\* nodes of the slot tree reached through mappings only that are no mapping (a
\* slot leaf, or a whole pair-node or sequence), each bound to the value subtree
\* at the same key path; a slot tree with a mapping inside a pair-node or
\* sequence is refused with a TypeError, because such a node is no mapping key.
C2_KeysAreNonMappingNodes ==
    (pc = "feed_dict_from_nested" /\ Isomorphic(placeholder, value)) =>
        IF \A p \in DictPaths(placeholder) : Hashable(At(placeholder, p))
        THEN /\ result.status = "ok"
             /\ DOMAIN result.out = {At(placeholder, p) : p \in DictPaths(placeholder)}
             /\ \A p \in DictPaths(placeholder) :
                    result.out[At(placeholder, p)] = Bound(At(value, p))
        ELSE result = Raise("TypeError")

\* C2 witness: a slot tree that holds a pair-node under a key was bound to an
\* isomorphic value tree, and the pair-node is a key of the mapping.
C2_Witness ==
    /\ pc = "feed_dict_from_nested"
    /\ Isomorphic(placeholder, value)
    /\ IsDict(placeholder)
    /\ result.status = "ok"
    /\ \E i \in DOMAIN placeholder.sub :
           /\ placeholder.sub[i].kind = "LSTMStateTuple"
           /\ placeholder.sub[i] \in DOMAIN result.out

\* C9: with expand_batch set every slot is bound to the one-element sequence
\* holding its value, without it to the value itself, and the flag changes
\* nothing else: the mapping has the same keys with the flag and without it.
C9_ExpandBatch ==
    (pc = "feed_dict_from_nested" /\ result.status = "ok") =>
        /\ \A p \in DictPaths(placeholder) :
               /\ At(placeholder, p) \in DOMAIN result.out
               /\ expand_batch =>
                      result.out[At(placeholder, p)] = List(<<At(value, p)>>)
               /\ ~expand_batch => result.out[At(placeholder, p)] = At(value, p)
        /\ LET other == feed_dict_from_nested(placeholder, value, ~expand_batch)
           IN  other.status = "ok" /\ DOMAIN other.out = DOMAIN result.out

\* C9 witness: a slot leaf under a key was bound to [value].
C9_Witness ==
    /\ pc = "feed_dict_from_nested"
    /\ result.status = "ok"
    /\ expand_batch
    /\ IsDict(placeholder)
    /\ \E p \in DictPaths(placeholder) :
           /\ At(placeholder, p).kind = "placeholder"
           /\ result.out[At(placeholder, p)] = List(<<At(value, p)>>)

-----------------------------------------------------------------------------
(* feed_dict_rnn_context. *)

RECURSIVE LeavesInInsertionOrder(_)
\* The leaves depth first, a dict's items in the order its keys were inserted.
LeavesInInsertionOrder(x) ==
    IF ~IsSequence(x) THEN <<x>>
    ELSE Cat([i \in DOMAIN x.sub |-> LeavesInInsertionOrder(x.sub[i])])

\* zip(a, b) as the dict comprehension consumes it: it stops at the shorter one.
ZipDict(a, b) ==
    UpdateAll([i \in 1..Min(Len(a), Len(b)) |-> a[i] :> b[i]])

\* A mutant of feed_dict_rnn_context: the values are walked in insertion order.
feed_dict_rnn_context_unsorted(placeholders, values) ==
    Ok(ZipDict(placeholders, LeavesInInsertionOrder(values)))

feed_dict_rnn_context(placeholders, values) ==
    Ok(ZipDict(placeholders, flatten_nested(values)))

-----------------------------------------------------------------------------
(* SpecZip: flat_placeholders of a schema, then feed_dict_rnn_context of the  *)
(* flat placeholders and a value tree.                                      *)

KeysZip == {"x", "y"}

ZipSchemas == Trees(KeysZip, {"dict"}, {Shape(<<>>)}, MaxNodesZip)

ZipValues == {Fill(t, 1, 1) : t \in Trees(KeysZip, AllKinds, {AnyLeaf}, MaxNodesZip)}

InitZip ==
    /\ pc = "call"
    /\ ob_space \in ZipSchemas
    /\ value \in ZipValues
    /\ batch_dim = None
    /\ name = "flt"
    /\ placeholder = NoValue
    /\ expand_batch = FALSE
    /\ dict_list = <<>>
    /\ result = NotCalled

FeedDictRnnContext ==
    /\ pc = "flat_placeholders"
    /\ result' = feed_dict_rnn_context(placeholder.sub, value)
    /\ pc' = "feed_dict_rnn_context"
    /\ UNCHANGED <<ob_space, batch_dim, name, placeholder, value, expand_batch, dict_list>>

NextZip == FlatPlaceholders \/ FeedDictRnnContext

SpecZip == InitZip /\ [][NextZip]_vars

\* C3: feed_dict_rnn_context with a flat slot sequence whose length differs from
\* the number of leaves of the value tree fails; it returns no mapping.
C3_LengthMismatchRaises ==
    (pc = "feed_dict_rnn_context"
        /\ Len(placeholder.sub) # Cardinality(LeafPaths(value))) =>
        result.status = "error"

\* C10: for a schema and a value tree with the same keys, feed_dict_rnn_context of
\* flat_placeholders(schema) and the value tree binds every placeholder, and binds
\* it to the value at the placeholder's own key path, whatever the order in which
\* the keys of the two trees were inserted.
C10_SameKeyPath ==
    (pc = "feed_dict_rnn_context" /\ Isomorphic(ob_space, value)) =>
        /\ result.status = "ok"
        /\ LET slots == nested_placeholders(ob_space, batch_dim, name)
           IN  /\ DOMAIN result.out = {At(slots, p) : p \in LeafPaths(ob_space)}
               /\ \A p \in LeafPaths(ob_space) :
                      result.out[At(slots, p)] = At(value, p)

\* C10 witness: a schema and a value tree with the same two keys, inserted in
\* different orders, were paired.
C10_Witness ==
    /\ pc = "feed_dict_rnn_context"
    /\ Isomorphic(ob_space, value)
    /\ IsDict(ob_space)
    /\ Len(ob_space.keys) > 1
    /\ ob_space.keys # value.keys
    /\ result.status = "ok"

-----------------------------------------------------------------------------
(* batch_concat. *)

\* x.shape[0]
Shape0(x) ==
    IF x.kind = "ndarray" THEN Ok(Len(x.val))
    ELSE IF x.kind = "scalar" THEN Raise("IndexError")
    ELSE Raise("AttributeError")

\* np.concatenate(arrays, axis=0) of one-dimensional arrays; anything else in the
\* list (a zero-dimensional value, a dict, a nested sequence) is refused.
np_concatenate(arrays) ==
    IF \A i \in DOMAIN arrays : arrays[i].kind = "ndarray"
    THEN Ok(NdArray(Cat([i \in DOMAIN arrays |-> arrays[i].val])))
    ELSE Raise("ValueError")

\* [value[key] for value in dict_list]
ValuesAtKey(list, key) ==
    LET got == [i \in DOMAIN list |-> GetKey(list[i], key)]
    IN  IF FirstError(got).status = "error" THEN FirstError(got)
        ELSE Ok([i \in DOMAIN list |-> got[i].out])

\* [struct[i] for struct in dict_list]
ValuesAtIndex(list, i) ==
    LET got == [j \in DOMAIN list |-> GetIndex(list[j], i)]
    IN  IF FirstError(got).status = "error" THEN FirstError(got)
        ELSE Ok([j \in DOMAIN list |-> got[j].out])

RECURSIVE SetAll(_, _, _)
\* batch[keys[i]] = vals[i] for each i in turn.
SetAll(batch, keys, vals) ==
    IF keys = <<>> THEN batch
    ELSE SetAll(DictSet(batch, Head(keys), Head(vals)), Tail(keys), Tail(vals))

\* A mutant of TopInject: the batch size is taken from the first rollout.
TopInjectMasterLen(list, top) ==
    IF ~top THEN Ok(Dict(<<>>, <<>>))
    ELSE LET terminal == GetKey(list[1], "terminal")
         IN  IF terminal.status = "error" THEN terminal
             ELSE IF Shape0(terminal.out).status = "error" THEN Shape0(terminal.out)
             ELSE Ok(Dict(<<"rnn_batch_size", "rnn_time_steps">>,
                          <<PyInt(Len(list[1].sub)), PyInt(Shape0(terminal.out).out)>>))

\* batch = {} and the shape inference of the top-level call.
TopInject(list, top) ==
    IF ~top THEN Ok(Dict(<<>>, <<>>))
    ELSE LET terminal == GetKey(list[1], "terminal")
         IN  IF terminal.status = "error" THEN terminal
             ELSE IF Shape0(terminal.out).status = "error" THEN Shape0(terminal.out)
             ELSE Ok(Dict(<<"rnn_batch_size", "rnn_time_steps">>,
                          <<PyInt(Len(list)), PyInt(Shape0(terminal.out).out)>>))

RECURSIVE batch_concat(_, _)

\* A mutant of ConcatDict: the recursive calls run as top-level calls.
ConcatDictAsTop(list, batch) ==
    LET master == list[1]
        done == [i \in DOMAIN master.keys |->
                    LET value_list == ValuesAtKey(list, master.keys[i])
                    IN  IF value_list.status = "error" THEN value_list
                        ELSE batch_concat(value_list.out, TRUE)]
    IN  IF FirstError(done).status = "error" THEN FirstError(done)
        ELSE Ok(SetAll(batch, master.keys, [i \in DOMAIN done |-> done[i].out]))

\* The dict branch: batch[key] = batch_concat(value_list, False) for every key
\* of the first rollout.
ConcatDict(list, batch) ==
    LET master == list[1]
        done == [i \in DOMAIN master.keys |->
                    LET value_list == ValuesAtKey(list, master.keys[i])
                    IN  IF value_list.status = "error" THEN value_list
                        ELSE batch_concat(value_list.out, FALSE)]
    IN  IF FirstError(done).status = "error" THEN FirstError(done)
        ELSE Ok(SetAll(batch, master.keys, [i \in DOMAIN done |-> done[i].out]))

\* The tuple branch: one batch_concat for every position of the first rollout.
ConcatTuple(list) ==
    LET master == list[1]
        done == [i \in DOMAIN master.sub |->
                    LET structs == ValuesAtIndex(list, i - 1)
                    IN  IF structs.status = "error" THEN structs
                        ELSE batch_concat(structs.out, FALSE)]
    IN  IF FirstError(done).status = "error" THEN FirstError(done)
        ELSE Ok(Tuple([i \in DOMAIN done |-> done[i].out]))

\* A mutant of ConcatPair: the pair-node is handled as a plain tuple.
ConcatPairAsTuple(list) == ConcatTuple(list)

\* The LSTMStateTuple branch: the first channels, then the second channels.
ConcatPair(list) ==
    LET cs == ValuesAtIndex(list, 0)
        c == IF cs.status = "error" THEN cs ELSE batch_concat(cs.out, FALSE)
        hs == ValuesAtIndex(list, 1)
        h == IF hs.status = "error" THEN hs ELSE batch_concat(hs.out, FALSE)
    IN  IF c.status = "error" THEN c
        ELSE IF h.status = "error" THEN h
        ELSE Ok(LSTMStateTuple(c.out, h.out))

batch_concat(list, top) ==
    IF list = <<>> THEN Raise("IndexError")
    ELSE LET master == list[1]
             batch == TopInject(list, top)
         IN  IF batch.status = "error" THEN batch
             ELSE IF IsDict(master) THEN ConcatDict(list, batch.out)
             ELSE IF master.kind = "LSTMStateTuple" THEN ConcatPair(list)
             ELSE IF IsTuple(master) THEN ConcatTuple(list)
             ELSE np_concatenate(list)

-----------------------------------------------------------------------------
(* SpecConcat: one top-level call of batch_concat on rollouts of one          *)
(* structure.  SpecConcatMixed: the same call on two rollouts of any two    *)
(* structures.                                                              *)

\* The keys of a processed rollout are the fields it records; 'rnn_batch_size'
\* and 'rnn_time_steps' are not among them.
KeysRollout == {"terminal", "state"}

RolloutStructures == Trees(KeysRollout, AllKinds, {AnyLeaf}, MaxNodesRollout)

MixedStructures == Trees(KeysRollout, AllKinds, {AnyLeaf}, MaxNodesMixed)

RECURSIVE Reversed(_)
\* The same tree with the keys of every dict inserted in the opposite order.
Reversed(t) ==
    IF ~IsSequence(t) THEN t
    ELSE IF IsDict(t)
         THEN Dict([i \in DOMAIN t.keys |-> t.keys[Len(t.keys) + 1 - i]],
                   [i \in DOMAIN t.sub |-> Reversed(t.sub[Len(t.sub) + 1 - i])])
         ELSE Node(t.kind, t.keys, [i \in DOMAIN t.sub |-> Reversed(t.sub[i])], <<>>)

InitConcat ==
    /\ pc = "call"
    /\ \E t \in RolloutStructures, n \in 1..MaxBatch, rev \in BOOLEAN :
           \E steps \in [1..n -> 1..MaxSteps] :
               dict_list = [i \in 1..n |->
                               Fill(IF rev /\ i > 1 THEN Reversed(t) ELSE t, i, steps[i])]
    /\ ob_space = NoValue
    /\ batch_dim = None
    /\ name = "batch"
    /\ placeholder = NoValue
    /\ value = NoValue
    /\ expand_batch = FALSE
    /\ result = NotCalled

InitConcatMixed ==
    /\ pc = "call"
    /\ \E t \in MixedStructures, u \in MixedStructures, steps \in 1..MaxSteps :
           dict_list = <<Fill(t, 1, steps), Fill(u, 2, steps)>>
    /\ ob_space = NoValue
    /\ batch_dim = None
    /\ name = "batch"
    /\ placeholder = NoValue
    /\ value = NoValue
    /\ expand_batch = FALSE
    /\ result = NotCalled

BatchConcat ==
    /\ pc = "call"
    /\ result' = batch_concat(dict_list, TRUE)
    /\ pc' = "batch_concat"
    /\ UNCHANGED <<ob_space, batch_dim, name, placeholder, value, expand_batch, dict_list>>

NextConcat == BatchConcat

SpecConcat == InitConcat /\ [][NextConcat]_vars

SpecConcatMixed == InitConcatMixed /\ [][NextConcat]_vars

RECURSIVE NodePaths(_)
\* The paths from the root to every node, the root and the leaves included.
NodePaths(t) ==
    {<<>>} \cup
    UNION {{<<Step(t, i)>> \o p : p \in NodePaths(t.sub[i])} : i \in DOMAIN t.sub}

\* The rollouts batch_concat is meant for: mappings, isomorphic to each other,
\* each with a 'terminal' array, all 'terminal' arrays of one length.
ProperRollouts ==
    /\ dict_list # <<>>
    /\ \A i \in DOMAIN dict_list :
           /\ IsDict(dict_list[i])
           /\ Isomorphic(dict_list[1], dict_list[i])
           /\ "terminal" \in Range(dict_list[i].keys)
           /\ DictGet(dict_list[i], "terminal").kind = "ndarray"
           /\ Len(DictGet(dict_list[i], "terminal").val)
                  = Len(DictGet(dict_list[1], "terminal").val)

\* The time steps of the first rollout.
TimeSteps == Len(DictGet(dict_list[1], "terminal").val)

\* The leaves at path p of all rollouts, concatenated in the order of the list.
Concatenated(p) ==
    NdArray(Cat([i \in DOMAIN dict_list |-> At(dict_list[i], p).val]))

Injected == {<<"rnn_batch_size">>, <<"rnn_time_steps">>}

\* C4: batch_concat of N isomorphic rollouts with 'terminal' leaves of length T
\* returns a mapping with the rollouts' leaves, each the concatenation in list
\* order of the N input leaves (N*T long where the inputs are T long), and with
\* rnn_batch_size = N and rnn_time_steps = T at the root.
C4_Concatenation ==
    (pc = "batch_concat" /\ ProperRollouts) =>
        /\ result.status = "ok"
        /\ IsDict(result.out)
        /\ LeafPaths(result.out) = LeafPaths(dict_list[1]) \cup Injected
        /\ DictGet(result.out, "rnn_batch_size") = PyInt(Len(dict_list))
        /\ DictGet(result.out, "rnn_time_steps") = PyInt(TimeSteps)
        /\ \A p \in LeafPaths(dict_list[1]) :
               /\ At(result.out, p) = Concatenated(p)
               /\ (\A i \in DOMAIN dict_list : Len(At(dict_list[i], p).val) = TimeSteps)
                      => Len(At(result.out, p).val) = Len(dict_list) * TimeSteps

\* C4 witness: two rollouts of two time steps each, with a second leaf beside
\* 'terminal' and keys inserted in different orders, were concatenated.
C4_Witness ==
    /\ pc = "batch_concat"
    /\ ProperRollouts
    /\ Len(dict_list) > 1
    /\ TimeSteps > 1
    /\ Len(dict_list[1].keys) > 1
    /\ dict_list[1].keys # dict_list[2].keys
    /\ result.status = "ok"

\* C5: batch_concat of rollouts that are not all isomorphic to the first one
\* fails; it returns no result.
C5_MixedStructuresRaise ==
    (pc = "batch_concat"
        /\ \E i \in DOMAIN dict_list : ~Isomorphic(dict_list[1], dict_list[i])) =>
        result.status = "error"

\* C6: where the rollouts hold a pair-node the result holds a pair-node, whose
\* first channel is built from the first channels of the rollouts only and whose
\* second channel from the second channels only.
C6_PairNodes ==
    (pc = "batch_concat" /\ ProperRollouts) =>
        /\ result.status = "ok"
        /\ \A q \in NodePaths(dict_list[1]) :
               At(dict_list[1], q).kind = "LSTMStateTuple" =>
                   /\ q \in NodePaths(result.out)
                   /\ At(result.out, q).kind = "LSTMStateTuple"
                   /\ Len(At(result.out, q).sub) = Len(At(dict_list[1], q).sub)
                   /\ \A c \in {"0", "1"} :
                          \A r \in LeafPaths(At(At(dict_list[1], q), <<c>>)) :
                              At(result.out, q \o <<c>> \o r) = Concatenated(q \o <<c>> \o r)

\* C6 witness: two rollouts with a pair-node of two arrays were concatenated.
C6_Witness ==
    /\ pc = "batch_concat"
    /\ ProperRollouts
    /\ Len(dict_list) > 1
    /\ result.status = "ok"
    /\ \E i \in DOMAIN dict_list[1].sub :
           /\ dict_list[1].sub[i].kind = "LSTMStateTuple"
           /\ \A j \in DOMAIN dict_list[1].sub[i].sub :
                  dict_list[1].sub[i].sub[j].kind = "ndarray"

\* C7: rnn_batch_size and rnn_time_steps are keys of the root of the result only:
\* every nested mapping of the result has exactly the keys of the nested mapping
\* of the rollouts at its position.
C7_InjectedAtRootOnly ==
    (pc = "batch_concat" /\ ProperRollouts) =>
        /\ result.status = "ok"
        /\ Range(result.out.keys)
               = Range(dict_list[1].keys) \cup {"rnn_batch_size", "rnn_time_steps"}
        /\ \A q \in NodePaths(dict_list[1]) :
               (q # <<>> /\ IsDict(At(dict_list[1], q))) =>
                   /\ q \in NodePaths(result.out)
                   /\ IsDict(At(result.out, q))
                   /\ Range(At(result.out, q).keys) = Range(At(dict_list[1], q).keys)

\* C7 witness: rollouts with a nested mapping that itself holds a 'terminal'
\* array were concatenated.
C7_Witness ==
    /\ pc = "batch_concat"
    /\ ProperRollouts
    /\ result.status = "ok"
    /\ \E i \in DOMAIN dict_list[1].sub :
           /\ IsDict(dict_list[1].sub[i])
           /\ "terminal" \in Range(dict_list[1].sub[i].keys)

=============================================================================
